---------------------------- MODULE Spec2Model ----------------------------
(***************************************************************************)
(* Model of package wlog's output formatters (formatters.go):              *)
(* JSONFormatter.Format, TextFormatter.Format, getTimestamp, writeString   *)
(* and itoa.  Text is modelled as sequences of one-character strings, so   *)
(* that padding, escaping and newline handling are computed, not assumed.  *)
(***************************************************************************)
EXTENDS Integers, Sequences, FiniteSets, TLC

VARIABLES
    formatter,   \* formatter[p]: the Formatter caller p's logger was built with
    fields,      \* fields[p]: l.fields, the logger's field mapping
    fields0,     \* fields0[p]: the mapping as the caller supplied it (history)
    logLevel,    \* logLevel[p]: l.logLevel during the call
    msg,         \* msg[p]: the msg argument
    entryTime,   \* entryTime[p]: the entryTime argument
    w,           \* w[p]: bytes the call's io.Writer has accepted
    pc,          \* pc[p]: 0 = no call in progress, k = next statement/write
    ret,         \* ret[p]: value returned by the last Format call
    calls,       \* calls[p]: Format calls completed
    attempts,    \* attempts[p]: the Write calls made by the call, in order
    stderr,      \* stderr[p]: what the call printed on os.Stderr, in order
    faultsLeft,  \* faultsLeft[p]: writes the call's writer may still reject
    it           \* the frame of one itoa invocation (SpecItoa)

vars == <<formatter, fields, fields0, logLevel, msg, entryTime, w, pc, ret,
          calls, attempts, stderr, faultsLeft, it>>

---------------------------------------------------------------------------
(* Bounds of the model. *)
NumCallers == 2
MaxCalls == 2
MaxConcCalls == 1
MaxFaults == 2
MaxI == 1200

Callers == 1..NumCallers

---------------------------------------------------------------------------
(* Characters and decimal text. *)

Digit == <<"0", "1", "2", "3", "4", "5", "6", "7", "8", "9">>

\* byte('0' + n): a decimal digit for n in 0..9, some other byte otherwise.
ByteZeroPlus(n) == IF n \in 0..9 THEN Digit[n + 1] ELSE "?"

\* The zero value of a byte of `var b [20]byte`.
NUL == "NUL"

BufLen == 20

RECURSIVE Flatten(_)
Flatten(ss) == IF ss = <<>> THEN <<>> ELSE Head(ss) \o Flatten(Tail(ss))

\* Natural decimal expansion, most significant digit first (fmt's %d).
RECURSIVE Dec(_)
Dec(n) == IF n < 10 THEN <<Digit[n + 1]>>
          ELSE Append(Dec(n \div 10), Digit[(n % 10) + 1])

RECURSIVE Zeros(_)
Zeros(k) == IF k <= 0 THEN <<>> ELSE <<"0">> \o Zeros(k - 1)

\* Left-pad with '0' to at least wid characters (fmt's %0<wid>d on n >= 0).
ZeroPad(s, wid) == Zeros(wid - Len(s)) \o s

\* fmt.Sprintf of one %d (wid = 0) or %0<wid>d verb.
SprintfD(n, wid) == ZeroPad(Dec(n), wid)

---------------------------------------------------------------------------
(* itoa (formatters.go:109-126).                                            *)

ItoaFrame(i, wid) ==
    [i |-> i, wid |-> wid, bp |-> BufLen - 1,
     b |-> [x \in 0..(BufLen - 1) |-> NUL],
     i0 |-> i, wid0 |-> wid, done |-> FALSE, nwrites |-> 0, out |-> <<>>]

\* Mutant: the width treated as a maximum (the loop stops once it is used up).
ItoaCond_truncating(f) == f.wid > 1

\* for i >= 10 || wid > 1
ItoaCond(f) == f.i >= 10 \/ f.wid > 1

\* One iteration of the loop body.
ItoaBody(f) ==
    LET q == f.i \div 10 IN
    [f EXCEPT !.wid = f.wid - 1,
              !.b = [f.b EXCEPT ![f.bp] = ByteZeroPlus(f.i - q * 10)],
              !.bp = f.bp - 1,
              !.i = q]

\* b[bp] = byte('0' + i); w.Write(b[bp:])
ItoaTail(f) ==
    LET b2 == [f.b EXCEPT ![f.bp] = ByteZeroPlus(f.i)] IN
    [f EXCEPT !.b = b2,
              !.out = [k \in 1..(BufLen - f.bp) |-> b2[f.bp + k - 1]],
              !.nwrites = f.nwrites + 1,
              !.done = TRUE]

RECURSIVE ItoaRun(_)
ItoaRun(f) == IF ItoaCond(f) THEN ItoaRun(ItoaBody(f)) ELSE ItoaTail(f)

\* The bytes itoa hands to w.Write.
itoa(i, wid) == ItoaRun(ItoaFrame(i, wid)).out


---------------------------------------------------------------------------
(* Severity levels.  LogLevel, its constants and its String method live in  *)
(* the logger's file; they are modelled from the documented contract.       *)

Dbg == "Dbg"
Nfo == "Nfo"
Wrn == "Wrn"
Err == "Err"
Ftl == "Ftl"
LogLevels == {Dbg, Nfo, Wrn, Err, Ftl}

\* A LogLevel value that is none of the five constants.
OtherLevel == "Other"

\* l.logLevel.String(): the canonical lower-case name (five known levels).
LevelString(l) ==
    CASE l = Dbg -> <<"d", "e", "b", "u", "g">>
      [] l = Nfo -> <<"i", "n", "f", "o">>
      [] l = Wrn -> <<"w", "a", "r", "n">>
      [] l = Err -> <<"e", "r", "r", "o", "r">>
      [] l = Ftl -> <<"f", "a", "t", "a", "l">>

\* Mutant: the switch loses its Wrn case.
TextLabel_noWrn(l) ==
    CASE l = Dbg -> <<"D", "B", "G", " ">>
      [] l = Nfo -> <<"N", "F", "O", " ">>
      [] l = Err -> <<"E", "R", "R", " ">>
      [] l = Ftl -> <<"F", "T", "L", " ">>
      [] OTHER -> <<>>

\* switch l.logLevel: `var level string` stays "" when no case matches.
TextLabel(l) ==
    CASE l = Dbg -> <<"D", "B", "G", " ">>
      [] l = Nfo -> <<"N", "F", "O", " ">>
      [] l = Wrn -> <<"W", "R", "N", " ">>
      [] l = Err -> <<"E", "R", "R", " ">>
      [] l = Ftl -> <<"F", "T", "L", " ">>
      [] OTHER -> <<>>

---------------------------------------------------------------------------
(* Inputs: timestamps (time.Time read through Date, Clock, Nanosecond) and  *)
(* messages.                                                                *)

Time(y, mo, d, h, mi, s, ns) ==
    [year |-> y, month |-> mo, day |-> d, hour |-> h, min |-> mi, sec |-> s,
     nsec |-> ns]

Times == { Time(2024, 1, 5, 8, 3, 9, 123456789),
           Time(999, 12, 31, 23, 59, 59, 999999999),
           Time(10000, 1, 1, 0, 0, 0, 999) }

Msgs == { <<>>,
          <<"h", "i">>,
          <<"h", "i", "\n">>,
          <<"\n", "\n">>,
          <<"\"", "\\">> }

\* entryTime.Nanosecond() / 1e3 (integer division).
Micro(t) == t.nsec \div 1000

---------------------------------------------------------------------------
(* getTimestamp (formatters.go:91-99).                                      *)

\* fmt.Sprintf("%d-%02d-%02d %02d:%02d:%02d:%06d", year, month, day, ...)
getTimestamp(now) ==
    SprintfD(now.year, 0) \o <<"-">> \o SprintfD(now.month, 2) \o <<"-">>
      \o SprintfD(now.day, 2) \o <<" ">> \o SprintfD(now.hour, 2) \o <<":">>
      \o SprintfD(now.min, 2) \o <<":">> \o SprintfD(now.sec, 2) \o <<":">>
      \o SprintfD(Micro(now), 6)

---------------------------------------------------------------------------
(* TextFormatter.Format (formatters.go:40-89): the Write calls it makes.    *)

ItoaCall(i, wid) == [fn |-> "itoa", bytes |-> itoa(i, wid)]
WriteStringCall(str) == [fn |-> "writeString", bytes |-> str]

\* Mutant: a newline is appended after every message.
NeedsNewline_always(m) == TRUE

\* len(msg) == 0 || msg[len(msg)-1] != '\n'
NeedsNewline(m) == Len(m) = 0 \/ m[Len(m)] # "\n"

\* The k-th Write call of Format, in program order: 13 for the date and
\* time, then the space, the level label, the message and the newline.
TextWriteAt(k, l, m, t) ==
    CASE k = 1 -> ItoaCall(t.year, 4)
      [] k = 2 -> WriteStringCall(<<"-">>)
      [] k = 3 -> ItoaCall(t.month, 2)
      [] k = 4 -> WriteStringCall(<<"-">>)
      [] k = 5 -> ItoaCall(t.day, 2)
      [] k = 6 -> WriteStringCall(<<" ">>)
      [] k = 7 -> ItoaCall(t.hour, 2)
      [] k = 8 -> WriteStringCall(<<":">>)
      [] k = 9 -> ItoaCall(t.min, 2)
      [] k = 10 -> WriteStringCall(<<":">>)
      [] k = 11 -> ItoaCall(t.sec, 2)
      [] k = 12 -> WriteStringCall(<<":">>)
      [] k = 13 -> ItoaCall(Micro(t), 6)
      [] k = 14 -> WriteStringCall(<<" ">>)
      [] k = 15 -> WriteStringCall(TextLabel(l))
      [] k = 16 -> WriteStringCall(m)
      [] k = 17 -> WriteStringCall(<<"\n">>)

\* How many Write calls one Format call makes.
NumTextWrites(m) == IF NeedsNewline(m) THEN 17 ELSE 16

\* The diagnostic each helper prints on os.Stderr when its write fails.
Diagnostic(fn) ==
    IF fn = "itoa" THEN "failed adding zero padding to %d"
    ELSE "could not write entry log, err: %s"


---------------------------------------------------------------------------
(* The field mapping and its JSON encoding (encoding/json as used at        *)
(* formatters.go:27-29).                                                    *)

Str(s) == [t |-> "string", s |-> s]

\* A value json cannot represent (a channel, a func).
Chan == [t |-> "chan", s |-> <<>>]

NoFields == [k \in {} |-> Chan]

FieldChoices ==
    { NoFields,
      [user |-> Str(<<"a">>)],
      [user |-> Str(<<"a">>), msg |-> Str(<<"o", "l", "d">>)],
      [user |-> Chan] }

\* The mapping of the runs in which the mapping is not what varies.
ConcFieldChoices == { [user |-> Str(<<"a">>)] }

ReservedKeys == {"msg", "timestamp", "level"}

\* Mutant: an insertion that keeps a value already stored under the key.
Put_ifAbsent(f, k, v) ==
    [x \in DOMAIN f \cup {k} |-> IF x \in DOMAIN f THEN f[x] ELSE v]

\* l.fields[k] = v
Put(f, k, v) == [x \in DOMAIN f \cup {k} |-> IF x = k THEN v ELSE f[x]]

\* The keys of the model, in the byte order encoding/json sorts map keys by.
KeyOrder == <<"level", "msg", "timestamp", "user">>

KeyChars ==
    [level |-> <<"l", "e", "v", "e", "l">>,
     msg |-> <<"m", "s", "g">>,
     timestamp |-> <<"t", "i", "m", "e", "s", "t", "a", "m", "p">>,
     user |-> <<"u", "s", "e", "r">>]

EscapeChar(c) ==
    CASE c = "\"" -> <<"\\", "\"">>
      [] c = "\\" -> <<"\\", "\\">>
      [] c = "\n" -> <<"\\", "n">>
      [] OTHER -> <<c>>

EncodeString(s) ==
    <<"\"">> \o Flatten([i \in 1..Len(s) |-> EscapeChar(s[i])]) \o <<"\"">>

EncodeMember(f, k) == EncodeString(KeyChars[k]) \o <<":">> \o EncodeString(f[k].s)

RECURSIVE JoinMembers(_, _)
JoinMembers(f, ks) ==
    IF ks = <<>> THEN <<>>
    ELSE IF Len(ks) = 1 THEN EncodeMember(f, ks[1])
    ELSE EncodeMember(f, ks[1]) \o <<",">> \o JoinMembers(f, Tail(ks))

SortedKeys(f) == SelectSeq(KeyOrder, LAMBDA k : k \in DOMAIN f)

\* json.Marshal of the mapping: an UnsupportedTypeError, or the object's text.
Marshal(f) ==
    IF \E k \in DOMAIN f : f[k].t # "string"
    THEN [ok |-> FALSE, bytes |-> <<>>]
    ELSE [ok |-> TRUE,
          bytes |-> <<"{">> \o JoinMembers(f, SortedKeys(f)) \o <<"}">>]

\* Mutant: the encoder does not terminate the record.
EncoderBytes_noNewline(f) == Marshal(f).bytes

\* What Encoder.Encode hands to w.Write: the document and a newline.
EncoderBytes(f) == Marshal(f).bytes \o <<"\n">>

---------------------------------------------------------------------------
(* Errors.                                                                  *)

Nil == [nil |-> TRUE, context |-> "", cause |-> ""]

UnsupportedTypeError == "json: unsupported type"
WriteError == "write error"

\* fmt.Errorf("failed to marshal fields to JSON, %v", err)
MarshalErrorf(cause) ==
    [nil |-> FALSE, context |-> "failed to marshal fields to JSON", cause |-> cause]

\* Mutant: the helpers' write errors are returned to the caller.
TextFormatResult_propagating(failed) ==
    IF failed > 0 THEN [nil |-> FALSE, context |-> "", cause |-> WriteError] ELSE Nil

\* return nil (line 88), whatever the helpers met.
TextFormatResult(failed) == Nil


---------------------------------------------------------------------------
(* The io.Writer and the helpers' error handling.                           *)

\* w.Write / io.WriteString: an accepted write appends its bytes; a rejected
\* one returns an error before consuming any.
Accept(stream, bytes, ok) == IF ok THEN stream \o bytes ELSE stream

\* Mutant: a formatter that keeps one writer for all its callers.
WriterOf_shared(p) == 1

\* The writer a call writes to: its own parameter w.
WriterOf(p) == p

\* Mutant: a rejected write is attempted again.
NextWrite_retrying(k, ok) == IF ok THEN k + 1 ELSE k

\* Straight-line code: the next Write call follows, whatever the last returned.
NextWrite(k, ok) == k + 1

\* fmt.Fprintf(os.Stderr, ...) in writeString and itoa, on err != nil only.
Report(out, fn, ok) == IF ok THEN out ELSE Append(out, Diagnostic(fn))

NumFailed(log) == Cardinality({k \in 1..Len(log) : ~log[k].ok})

---------------------------------------------------------------------------
(* Log entries: the (level, message, time) a call carries.                  *)

Entry(l, m, t) == [level |-> l, msg |-> m, time |-> t]

T2024 == Time(2024, 1, 5, 8, 3, 9, 123456789)

\* Every level, every message and every time, each against a common rest.
\* l.logLevel.String() is defined on the five constants only, so a JSON
\* entry carries one of them.
Entries(fmt) ==
    {Entry(l, <<"h", "i">>, T2024) :
        l \in IF fmt = "json" THEN LogLevels ELSE LogLevels \cup {OtherLevel}}
      \cup {Entry(Nfo, m, T2024) : m \in Msgs}
      \cup {Entry(Err, m, t) : m \in {<<>>, <<"h", "i", "\n">>}, t \in Times}

\* The entry caller p logs in the concurrent runs: its own number as the
\* message, so that no two callers carry the same arguments.
ConcEntries(p) ==
    IF p % 2 = 1 THEN {Entry(Nfo, Dec(p), T2024)}
    ELSE {Entry(Err, Dec(p) \o <<"\n">>, T2024)}

---------------------------------------------------------------------------
(* Actions.                                                                 *)

\* The logger invokes its formatter: Format(w, l, msg, entryTime), with a
\* fresh writer that will reject at most `faults` writes.
Call(p, E, maxCalls, faults) ==
    /\ pc[p] = 0
    /\ calls[p] < maxCalls
    /\ \E e \in E :
         /\ logLevel' = [logLevel EXCEPT ![p] = e.level]
         /\ msg' = [msg EXCEPT ![p] = e.msg]
         /\ entryTime' = [entryTime EXCEPT ![p] = e.time]
    /\ pc' = [pc EXCEPT ![p] = 1]
    /\ w' = [w EXCEPT ![p] = <<>>]
    /\ attempts' = [attempts EXCEPT ![p] = <<>>]
    /\ stderr' = [stderr EXCEPT ![p] = <<>>]
    /\ faultsLeft' = [faultsLeft EXCEPT ![p] = faults]
    /\ ret' = [ret EXCEPT ![p] = Nil]
    /\ UNCHANGED <<formatter, fields, fields0, calls, it>>

\* One Write call of TextFormatter.Format (through itoa or writeString);
\* after the last one, return nil.
TextWrite(p) ==
    /\ formatter[p] = "text"
    /\ pc[p] >= 1
    /\ LET k == pc[p]
           n == NumTextWrites(msg[p])
           c == TextWriteAt(k, logLevel[p], msg[p], entryTime[p])
       IN \E ok \in BOOLEAN :
            LET log == Append(attempts[p], [fn |-> c.fn, bytes |-> c.bytes, ok |-> ok])
                last == NextWrite(k, ok) > n
            IN /\ ok \/ faultsLeft[p] > 0
               /\ faultsLeft' = [faultsLeft EXCEPT ![p] = IF ok THEN @ ELSE @ - 1]
               /\ w' = [w EXCEPT ![WriterOf(p)] = Accept(@, c.bytes, ok)]
               /\ stderr' = [stderr EXCEPT ![p] = Report(@, c.fn, ok)]
               /\ attempts' = [attempts EXCEPT ![p] = log]
               /\ pc' = [pc EXCEPT ![p] = IF last THEN 0 ELSE NextWrite(k, ok)]
               /\ calls' = [calls EXCEPT ![p] = IF last THEN @ + 1 ELSE @]
               /\ ret' = [ret EXCEPT ![p] =
                            IF last THEN TextFormatResult(NumFailed(log)) ELSE @]
    /\ UNCHANGED <<formatter, fields, fields0, logLevel, msg, entryTime, it>>

JsonAssign(p, k, key, value) ==
    /\ formatter[p] = "json"
    /\ pc[p] = k
    /\ fields' = [fields EXCEPT ![p] = Put(@, key, value)]
    /\ pc' = [pc EXCEPT ![p] = k + 1]
    /\ UNCHANGED <<formatter, fields0, logLevel, msg, entryTime, w, ret, calls,
                   attempts, stderr, faultsLeft, it>>

\* l.fields["msg"] = msg
JsonSetMsg(p) == JsonAssign(p, 1, "msg", Str(msg[p]))

\* l.fields["timestamp"] = getTimestamp(entryTime)
JsonSetTimestamp(p) == JsonAssign(p, 2, "timestamp", Str(getTimestamp(entryTime[p])))

\* l.fields["level"] = l.logLevel.String()
JsonSetLevel(p) == JsonAssign(p, 3, "level", Str(LevelString(logLevel[p])))

\* encoder.Encode(l.fields) and the return: a marshalling error comes back
\* before anything is written; otherwise the text goes out in one Write.
JsonEncode(p) ==
    /\ formatter[p] = "json"
    /\ pc[p] = 4
    /\ IF ~Marshal(fields[p]).ok
       THEN /\ ret' = [ret EXCEPT ![p] = MarshalErrorf(UnsupportedTypeError)]
            /\ UNCHANGED <<w, attempts, faultsLeft>>
       ELSE \E ok \in BOOLEAN :
              /\ ok \/ faultsLeft[p] > 0
              /\ faultsLeft' = [faultsLeft EXCEPT ![p] = IF ok THEN @ ELSE @ - 1]
              /\ w' = [w EXCEPT ![WriterOf(p)] = Accept(@, EncoderBytes(fields[p]), ok)]
              /\ attempts' = [attempts EXCEPT ![p] =
                                Append(@, [fn |-> "Encode",
                                           bytes |-> EncoderBytes(fields[p]),
                                           ok |-> ok])]
              /\ ret' = [ret EXCEPT ![p] =
                           IF ok THEN Nil ELSE MarshalErrorf(WriteError)]
    /\ pc' = [pc EXCEPT ![p] = 0]
    /\ calls' = [calls EXCEPT ![p] = @ + 1]
    /\ UNCHANGED <<formatter, fields, fields0, logLevel, msg, entryTime, stderr, it>>

\* One iteration of itoa's loop.
ItoaIter ==
    /\ ~it.done
    /\ ItoaCond(it)
    /\ it' = ItoaBody(it)
    /\ UNCHANGED <<formatter, fields, fields0, logLevel, msg, entryTime, w, pc,
                   ret, calls, attempts, stderr, faultsLeft>>

\* The loop's exit: the last digit and the single Write.
ItoaFinish ==
    /\ ~it.done
    /\ ~ItoaCond(it)
    /\ it' = ItoaTail(it)
    /\ UNCHANGED <<formatter, fields, fields0, logLevel, msg, entryTime, w, pc,
                   ret, calls, attempts, stderr, faultsLeft>>

---------------------------------------------------------------------------
(* Specifications.                                                          *)

ItoaWidths == {2, 4, 6}

ItoaInputs ==
    (0..MaxI) \cup {9999, 10000, 99999, 100000, 999999, 1000000, 2147483647}

Quiet ==
    /\ logLevel = [p \in Callers |-> Nfo]
    /\ msg = [p \in Callers |-> <<>>]
    /\ entryTime = [p \in Callers |-> T2024]
    /\ w = [p \in Callers |-> <<>>]
    /\ pc = [p \in Callers |-> 0]
    /\ ret = [p \in Callers |-> Nil]
    /\ calls = [p \in Callers |-> 0]
    /\ attempts = [p \in Callers |-> <<>>]
    /\ stderr = [p \in Callers |-> <<>>]
    /\ faultsLeft = [p \in Callers |-> 0]

\* One logger with either formatter (the text formatter never reads the
\* field mapping, so one mapping stands for all); each call's writer may
\* reject up to MaxFaults writes.
Init ==
    /\ Quiet
    /\ \E fmt \in {"text", "json"} :
         \E f \in IF fmt = "json" THEN FieldChoices ELSE ConcFieldChoices :
            /\ formatter = [p \in Callers |-> fmt]
            /\ fields0 = [p \in Callers |-> f]
    /\ fields = fields0
    /\ it = ItoaTail(ItoaFrame(0, 1))

Next ==
    \/ Call(1, Entries(formatter[1]), MaxCalls, MaxFaults)
    \/ TextWrite(1)
    \/ JsonSetMsg(1)
    \/ JsonSetTimestamp(1)
    \/ JsonSetLevel(1)
    \/ JsonEncode(1)

Spec == Init /\ [][Next]_vars

\* NumCallers loggers, each with its own field mapping and writer, calling
\* concurrently; the writers accept every write.
InitConc ==
    /\ Quiet
    /\ formatter \in [Callers -> {"text", "json"}]
    /\ fields0 \in [Callers -> ConcFieldChoices]
    /\ fields = fields0
    /\ it = ItoaTail(ItoaFrame(0, 1))

NextConc ==
    \E p \in Callers :
       \/ Call(p, ConcEntries(p), MaxConcCalls, 0)
       \/ TextWrite(p)
       \/ JsonSetMsg(p)
       \/ JsonSetTimestamp(p)
       \/ JsonSetLevel(p)
       \/ JsonEncode(p)

SpecConc == InitConc /\ [][NextConc]_vars

\* One itoa invocation, iteration by iteration.
InitItoa ==
    /\ Quiet
    /\ formatter = [p \in Callers |-> "text"]
    /\ fields0 = [p \in Callers |-> NoFields]
    /\ fields = fields0
    /\ \E i \in ItoaInputs, wid \in ItoaWidths : it = ItoaFrame(i, wid)

NextItoa == ItoaIter \/ ItoaFinish

SpecItoa == InitItoa /\ [][NextItoa]_vars


---------------------------------------------------------------------------
(* Vocabulary of the properties.                                            *)

Done(p) == pc[p] = 0 /\ calls[p] > 0
AllAccepted(p) == \A k \in 1..Len(attempts[p]) : attempts[p][k].ok
IsText(p) == formatter[p] = "text"
IsJson(p) == formatter[p] = "json"

EndsInTwoNewlines(s) ==
    Len(s) >= 2 /\ s[Len(s)] = "\n" /\ s[Len(s) - 1] = "\n"

Suffix(s, n) == SubSeq(s, Len(s) - n + 1, Len(s))

Max(a, b) == IF a >= b THEN a ELSE b

\* YYYY-MM-DD HH:MM:SS:NNNNNN, every field zero-padded to its width.
PatternStamp(t) ==
    ZeroPad(Dec(t.year), 4) \o <<"-">> \o ZeroPad(Dec(t.month), 2) \o <<"-">>
      \o ZeroPad(Dec(t.day), 2) \o <<" ">> \o ZeroPad(Dec(t.hour), 2) \o <<":">>
      \o ZeroPad(Dec(t.min), 2) \o <<":">> \o ZeroPad(Dec(t.sec), 2) \o <<":">>
      \o ZeroPad(Dec(t.nsec \div 1000), 6)

PatternLabel(l) ==
    IF l = Dbg THEN <<"D", "B", "G", " ">>
    ELSE IF l = Nfo THEN <<"N", "F", "O", " ">>
    ELSE IF l = Wrn THEN <<"W", "R", "N", " ">>
    ELSE IF l = Err THEN <<"E", "R", "R", " ">>
    ELSE IF l = Ftl THEN <<"F", "T", "L", " ">>
    ELSE <<>>

PatternNewline(m) ==
    IF m = <<>> \/ m[Len(m)] # "\n" THEN <<"\n">> ELSE <<>>

\* The bytes of the Write calls logged so far that the writer accepted.
AcceptedBytes(log) ==
    Flatten([k \in 1..Len(log) |-> IF log[k].ok THEN log[k].bytes ELSE <<>>])

\* The date and time as TextFormatter.Format writes them (writes 1 to 13).
TextStamp(t) == Flatten([k \in 1..13 |-> TextWriteAt(k, Nfo, <<>>, t).bytes])

\* Reading a record back: the string literals of a JSON text, unescaped, in
\* order of appearance.
Unescape(c) == IF c = "n" THEN "\n" ELSE c

RECURSIVE UnescapeAll(_)
UnescapeAll(r) ==
    IF r = <<>> THEN <<>>
    ELSE IF r[1] = "\\" /\ Len(r) >= 2
         THEN <<Unescape(r[2])>> \o UnescapeAll(SubSeq(r, 3, Len(r)))
         ELSE <<r[1]>> \o UnescapeAll(Tail(r))

\* The backslashes that stand immediately before position i.
BackslashesBefore(s, i) ==
    Cardinality({n \in 1..(i - 1) : \A j \in 1..n : s[i - j] = "\\"})

\* The positions of the quotes that open or close a string literal.
QuotePositions(s) ==
    {i \in 1..Len(s) : s[i] = "\"" /\ BackslashesBefore(s, i) % 2 = 0}

NthQuote(s, n) ==
    CHOOSE i \in QuotePositions(s) :
        Cardinality({x \in QuotePositions(s) : x <= i}) = n

Literals(s) ==
    [j \in 1..(Cardinality(QuotePositions(s)) \div 2) |->
        UnescapeAll(SubSeq(s, NthQuote(s, 2 * j - 1) + 1, NthQuote(s, 2 * j) - 1))]

\* The members of the record: its (key, value) pairs.
Members(s) ==
    LET ls == Literals(s)
    IN {<<ls[2 * j - 1], ls[2 * j]>> : j \in 1..(Len(ls) \div 2)}

NumMembers(s) == Len(Literals(s)) \div 2

Newlines(s) == Cardinality({i \in 1..Len(s) : s[i] = "\n"})

\* What the mapping must hold after a call on caller p's logger: the
\* caller's entries, with the three reserved keys taken from the call.
ExpectedFields(p) ==
    [k \in DOMAIN fields0[p] \cup ReservedKeys |->
        IF k = "msg" THEN Str(msg[p])
        ELSE IF k = "timestamp" THEN Str(getTimestamp(entryTime[p]))
        ELSE IF k = "level" THEN Str(LevelString(logLevel[p]))
        ELSE fields0[p][k]]

---------------------------------------------------------------------------
(* C1: the text line never ends in two consecutive newlines.                *)

\* C1 as stated: whatever the message, the output of a text call whose
\* writes were all accepted does not end in two newline characters.
C1_NeverTwoNewlines ==
    \A p \in Callers :
        (Done(p) /\ IsText(p) /\ AllAccepted(p)) => ~EndsInTwoNewlines(w[p])

\* C1 amended: exactly one newline is written after a message that is empty
\* or does not end in a newline, and nothing after one that does; the output
\* ends in two consecutive newlines exactly when the message itself does.
C1_NewlineAppended ==
    \A p \in Callers :
        (Done(p) /\ IsText(p) /\ AllAccepted(p)) =>
            LET nl == PatternNewline(msg[p])
            IN /\ Len(w[p]) >= Len(msg[p]) + Len(nl)
               /\ Suffix(w[p], Len(msg[p]) + Len(nl)) = msg[p] \o nl
               /\ Len(attempts[p]) = 16 + Len(nl)
               /\ attempts[p][16].bytes = msg[p]
               /\ EndsInTwoNewlines(w[p]) <=> EndsInTwoNewlines(msg[p])

C1_Witness ==
    \E p \in Callers :
        /\ Done(p) /\ IsText(p) /\ AllAccepted(p)
        /\ msg[p] = <<"\n", "\n">>
        /\ EndsInTwoNewlines(w[p])

---------------------------------------------------------------------------
(* C2: the bytes of a text line.                                            *)

\* C2: with a writer that accepts every write, a text call writes the
\* padded date, a space, the padded time, a space, the level label (empty
\* for an unknown level), the message verbatim and the optional newline,
\* and nothing else; an unknown level is not an error.
C2_TextLine ==
    \A p \in Callers :
        (Done(p) /\ IsText(p) /\ AllAccepted(p)) =>
            /\ w[p] = PatternStamp(entryTime[p]) \o <<" ">>
                        \o PatternLabel(logLevel[p])
                        \o msg[p] \o PatternNewline(msg[p])
            /\ ret[p].nil

C2_Witness ==
    \E p \in Callers :
        /\ Done(p) /\ IsText(p) /\ AllAccepted(p)
        /\ logLevel[p] = OtherLevel
        /\ Len(w[p]) = 27 + Len(msg[p]) + 1

---------------------------------------------------------------------------
(* C3: the record of a JSON call.                                           *)

\* C3: when the fields are representable and the writer accepts the write,
\* the call succeeds and the record it emits reads back as exactly the
\* caller's fields plus msg, timestamp and level with the call's values,
\* and ends with exactly one newline.
C3_Record ==
    \A p \in Callers :
        (Done(p) /\ IsJson(p)) =>
            /\ ((\A k \in DOMAIN fields0[p] : fields0[p][k].t = "string")
                    /\ AllAccepted(p)) => ret[p].nil
            /\ ret[p].nil =>
                 /\ Members(w[p]) =
                      {<<KeyChars[k], ExpectedFields(p)[k].s>> :
                          k \in DOMAIN ExpectedFields(p)}
                 /\ NumMembers(w[p]) = Cardinality(DOMAIN ExpectedFields(p))
                 /\ w[p][1] = "{"
                 /\ Suffix(w[p], 2) = <<"}", "\n">>
                 /\ Newlines(w[p]) = 1

C3_Witness ==
    \E p \in Callers :
        /\ Done(p) /\ IsJson(p) /\ ret[p].nil
        /\ msg[p] = <<"\n", "\n">>
        /\ "user" \in DOMAIN fields0[p]
        /\ Len(w[p]) > 0

---------------------------------------------------------------------------
(* C4: the field mapping after JSON calls.                                  *)

\* C4: after each JSON call on a mapping, failed or not, its keys are the
\* caller's keys and msg, timestamp, level; the other entries are as the
\* caller left them; each reserved key holds the value of the latest call,
\* overwriting what was there; and the three stay until the next call.
C4_FieldsAfterCalls ==
    \A p \in Callers :
        (IsJson(p) /\ calls[p] >= 1 /\ pc[p] \in {0, 1}) =>
            /\ DOMAIN fields[p] = DOMAIN fields0[p] \cup ReservedKeys
            /\ \A k \in DOMAIN fields0[p] \ ReservedKeys :
                  fields[p][k] = fields0[p][k]
            /\ pc[p] = 0 => fields[p] = ExpectedFields(p)

C4_Witness ==
    \E p \in Callers :
        /\ IsJson(p) /\ calls[p] = 2 /\ pc[p] = 0
        /\ "msg" \in DOMAIN fields0[p]
        /\ fields[p]["msg"] # fields0[p]["msg"]
        /\ fields[p]["user"] = fields0[p]["user"]


---------------------------------------------------------------------------
(* C5: TextFormatter.Format returns nil whatever the writer does.           *)

\* The diagnostics a log of Write calls calls for: one per rejected write,
\* of the helper that made it, in order.
RECURSIVE DiagnosticsOf(_)
DiagnosticsOf(log) ==
    IF log = <<>> THEN <<>>
    ELSE (IF log[1].ok THEN <<>>
          ELSE <<IF log[1].fn = "itoa" THEN "failed adding zero padding to %d"
                 ELSE "could not write entry log, err: %s">>)
           \o DiagnosticsOf(Tail(log))

\* C5: a text call returns nil; each write its writer rejected, in itoa or
\* in writeString, shows only as that helper's diagnostic on standard error.
C5_TextAlwaysNil ==
    \A p \in Callers :
        IsText(p) =>
            /\ ret[p].nil
            /\ stderr[p] = DiagnosticsOf(attempts[p])

C5_Witness ==
    \E p \in Callers :
        /\ Done(p) /\ IsText(p) /\ ret[p].nil
        /\ \E j, k \in 1..Len(attempts[p]) :
              /\ ~attempts[p][j].ok /\ attempts[p][j].fn = "itoa"
              /\ ~attempts[p][k].ok /\ attempts[p][k].fn = "writeString"

---------------------------------------------------------------------------
(* C6: the error of a failed JSON call names the stage that failed.         *)

\* C6: a failed JSON call returns a non-nil error carrying its cause, and
\* the error's context tells a marshalling failure from a failure of the
\* write to the stream.
C6_ContextIdentifiesStage ==
    \A p \in Callers :
        (Done(p) /\ IsJson(p) /\ ~ret[p].nil) =>
            /\ ret[p].cause # ""
            /\ (ret[p].cause = UnsupportedTypeError)
                  <=> (ret[p].context = "failed to marshal fields to JSON")

---------------------------------------------------------------------------
(* C7: no retries, no rollback, each failure surfaced once.                 *)

\* C7: the Write calls a call has made are the first ones of its program,
\* each made once and in order; the writer holds exactly the bytes of the
\* accepted ones; and each failure has been surfaced once: a text call has
\* printed one diagnostic per rejected write and returns nil, a JSON call
\* prints nothing and returns an error exactly when its one stage failed.
C7_NoRetrySurfacedOnce ==
    \A p \in Callers :
        /\ w[p] = AcceptedBytes(attempts[p])
        /\ IsText(p) =>
             /\ Len(attempts[p]) =
                  (IF pc[p] > 0 THEN pc[p] - 1
                   ELSE IF calls[p] > 0 THEN NumTextWrites(msg[p]) ELSE 0)
             /\ \A k \in 1..Len(attempts[p]) :
                   LET c == TextWriteAt(k, logLevel[p], msg[p], entryTime[p])
                   IN attempts[p][k].fn = c.fn /\ attempts[p][k].bytes = c.bytes
             /\ Len(stderr[p]) = NumFailed(attempts[p])
             /\ ret[p].nil
        /\ IsJson(p) =>
             /\ Len(attempts[p]) <= 1
             /\ pc[p] > 0 => attempts[p] = <<>>
             /\ stderr[p] = <<>>
             /\ Done(p) =>
                  (ret[p].nil <=> (Len(attempts[p]) = 1 /\ AllAccepted(p)))

C7_Witness ==
    \E p \in Callers :
        /\ Done(p) /\ IsText(p)
        /\ NumFailed(attempts[p]) = 2
        /\ Len(stderr[p]) = 2
        /\ attempts[p][Len(attempts[p])].ok

---------------------------------------------------------------------------
(* C8: getTimestamp and the text formatter agree.                           *)

\* C8: the timestamp string of a JSON call follows YYYY-MM-DD
\* HH:MM:SS:MMMMMM with a 4-digit year and equals, character for character,
\* the date and time TextFormatter.Format writes for the same instant.
C8_TimestampMatchesText ==
    \A p \in Callers :
        (Done(p) /\ IsJson(p)) =>
            /\ fields[p]["timestamp"].s = TextStamp(entryTime[p])
            /\ fields[p]["timestamp"].s = PatternStamp(entryTime[p])

---------------------------------------------------------------------------
(* C9: itoa (checked under SpecItoa).                                       *)

\* C9: for i >= 0 and a width of 2, 4 or 6, itoa writes once, the decimal
\* digits of i left-padded with '0' to max(width, number of digits); the
\* digits are produced least significant first, so the buffer's filled part
\* is always the tail of that text; and the buffer index stays in 0..19.
C9_Itoa ==
    LET want == ZeroPad(Dec(it.i0), it.wid0)
    IN /\ it.bp \in 0..(BufLen - 1)
       /\ Len(want) = Max(it.wid0, Len(Dec(it.i0)))
       /\ ~it.done =>
            /\ it.nwrites = 0
            /\ BufLen - 1 - it.bp < Len(want)
            /\ [k \in 1..(BufLen - 1 - it.bp) |-> it.b[it.bp + k]]
                 = Suffix(want, BufLen - 1 - it.bp)
       /\ it.done =>
            /\ it.nwrites = 1
            /\ it.out = want

C9_Witness ==
    /\ it.done
    /\ it.i0 = 10000
    /\ it.wid0 = 2
    /\ it.out = <<"1", "0", "0", "0", "0">>

---------------------------------------------------------------------------
(* C10: concurrent calls on distinct mappings and writers (SpecConc).       *)

\* The bytes a call that has reached statement k writes when it runs alone
\* on its own arguments.
SoloBytes(p, k) ==
    IF IsText(p)
    THEN Flatten([j \in 1..(k - 1) |->
                    TextWriteAt(j, logLevel[p], msg[p], entryTime[p]).bytes])
    ELSE IF k > 4 THEN Marshal(ExpectedFields(p)).bytes \o <<"\n">> ELSE <<>>

\* Where caller p stands: the statement it is at, or past the last one.
Position(p) ==
    IF pc[p] > 0 THEN pc[p]
    ELSE IF calls[p] = 0 THEN 1
    ELSE IF IsText(p) THEN NumTextWrites(msg[p]) + 1 ELSE 5

\* C10: however the calls interleave, each writer holds exactly the bytes
\* its own call writes when run alone, and each mapping holds the caller's
\* entries and its own call's msg, timestamp and level.
C10_Isolation ==
    \A p \in Callers :
        /\ w[p] = SoloBytes(p, Position(p))
        /\ IsJson(p) =>
             /\ DOMAIN fields[p] \subseteq DOMAIN fields0[p] \cup ReservedKeys
             /\ \A x \in DOMAIN fields0[p] \ ReservedKeys :
                   fields[p][x] = fields0[p][x]
             /\ Position(p) > 1 => fields[p]["msg"] = Str(msg[p])
             /\ Position(p) > 2 =>
                   fields[p]["timestamp"] = Str(getTimestamp(entryTime[p]))
             /\ Position(p) > 3 =>
                   fields[p]["level"] = Str(LevelString(logLevel[p]))
             /\ Done(p) => fields[p] = ExpectedFields(p)

C10_Witness ==
    \E p, q \in Callers :
        /\ p # q
        /\ IsText(p) /\ IsJson(q)
        /\ pc[p] > 1 /\ pc[q] > 1
        /\ msg[p] # msg[q]
        /\ w[p] # <<>>

=============================================================================
